---- MODULE Spec2Model ----
(***************************************************************************)
(* Safe-bet detection and competitive execution engine of the weather      *)
(* arbitrage bot: the orchestrator (botOrchestratorV2.ts), the trade       *)
(* engine (tradeEngine.ts) and the circuit breakers (circuitBreakers.ts). *)
(*                                                                         *)
(* JavaScript runs one callback at a time; a callback gives up control    *)
(* only at an await.  Every action below is the code between two awaits   *)
(* of one async function, so the interleavings of the actions are the      *)
(* interleavings the event loop can produce.                               *)
(*                                                                         *)
(* Prices are integers in thousandths (0.5 is 500); dollar amounts that    *)
(* the code obtains by division are exact fractions [num, den].            *)
(***************************************************************************)
EXTENDS Integers, Sequences, FiniteSets, Bags, TLC

\* ------------------------------------------------------------------ bounds
MaxInflight == 1
MaxTimers == 1
MaxPositions == 1
MaxResolved == 10
MaxOverlap == 1

\* --------------------------------------------------------------- constants
MAX_LOSS_THRESHOLD == -100
MIN_WIN_RATE_PERCENT == 80
MIN_USDC_BALANCE == 10
WinRateWindow == 10
WinRateMinTrades == 5
SlippagePercent == 102

Markets == <<"m1", "m2">>
Sides == {"YES", "NO"}
Cities == {"London", "New York"}
Keys == {<<Markets[i], s>> : i \in 1..Len(Markets), s \in Sides}
BreakerNames ==
    {"loss_limit", "win_rate", "data_freshness", "api_health",
     "balance_check", "network_congestion", "manual_stop"}

\* inputs of the environment
Balances == {5, 60}
LoopBalances == {60}
Refreshes == {{}, Cities}
PromoPrices == {500}
Quotes == {0, 500, 600}
Recommendations == {"SKIP", "BUY_YES", "BUY_NO"}
Scored(m) == IF m = "m1" THEN {"SKIP", "BUY_YES"} ELSE {"SKIP", "BUY_NO"}
PnLs == {-60, 20}

VARIABLES
    botRunning, botPaused, emergencyStop,   \* orchestrator flags
    mainPc,                                 \* index.ts main(): "load" | "ready"
    safeMarkets,                            \* Map key -> SafeMarket
    orderbookFetchersActive,                \* Map key -> timer id
    timers,                                 \* live interval timers (closures)
    ticks,                                  \* in-flight timer callbacks
    pass,                                   \* runSafeMarketDetectionLoop call
    positions,                              \* Position collection
    breakers,                               \* CircuitBreaker collection
    readings,                               \* latest TemperatureReading per city
    resolved,                               \* pnl of RESOLVED positions, oldest first
    paperMode,                              \* ENV.PAPER_TRADING_MODE
    call                                    \* last call of a pure function

vars == <<botRunning, botPaused, emergencyStop, mainPc, safeMarkets,
          orderbookFetchersActive, timers, ticks, pass, positions,
          breakers, readings, resolved, paperMode, call>>

\* ----------------------------------------------------------------- helpers
Remove(f, k) == [x \in DOMAIN f \ {k} |-> f[x]]
Put(f, k, v) == [x \in DOMAIN f \cup {k} |-> IF x = k THEN v ELSE f[x]]
EmptyMap == [x \in {} |-> 0]

RECURSIVE SumSeq(_)
SumSeq(s) == IF s = <<>> THEN 0 ELSE Head(s) + SumSeq(Tail(s))

LastN(s, n) == IF Len(s) <= n THEN s ELSE SubSeq(s, Len(s) - n + 1, Len(s))

Wins(s) == Cardinality({i \in 1..Len(s) : s[i] > 0})

\* ---------------------------------------------------------------- breakers
\* Each evaluator returns the CircuitBreaker collection it leaves behind and
\* the boolean it returns to its caller.

LossLimitTriggered == SumSeq(resolved) < MAX_LOSS_THRESHOLD

checkLossLimit(br) ==
    [br |-> [br EXCEPT !["loss_limit"] = LossLimitTriggered],
     triggered |-> LossLimitTriggered]

WinRateTriggered ==
    LET lastTrades == LastN(resolved, WinRateWindow)
    IN  Wins(lastTrades) * 100 < MIN_WIN_RATE_PERCENT * Len(lastTrades)

checkWinRateNoReset(br) ==
    IF Len(LastN(resolved, WinRateWindow)) < WinRateMinTrades
    THEN [br |-> br, triggered |-> FALSE]
    ELSE [br |-> [br EXCEPT !["win_rate"] = @ \/ WinRateTriggered],
          triggered |-> WinRateTriggered]

checkWinRate(br) ==
    IF Len(LastN(resolved, WinRateWindow)) < WinRateMinTrades
    THEN [br |-> br, triggered |-> FALSE]
    ELSE [br |-> [br EXCEPT !["win_rate"] = WinRateTriggered],
          triggered |-> WinRateTriggered]

getTrackedCities == {c \in Cities : readings[c] # "none"}

isWeatherDataFresh(c) == readings[c] = "fresh"

checkDataFreshness(br) ==
    IF getTrackedCities = {}
    THEN [br |-> br, triggered |-> FALSE]
    ELSE LET stale == {c \in getTrackedCities : ~isWeatherDataFresh(c)}
         IN  [br |-> [br EXCEPT !["data_freshness"] = (stale # {})],
              triggered |-> (stale # {})]

checkApiHealthResetsManual(br) ==
    [br |-> [br EXCEPT !["api_health"] = FALSE, !["manual_stop"] = FALSE],
     triggered |-> FALSE]

checkApiHealth(br) ==
    [br |-> [br EXCEPT !["api_health"] = FALSE], triggered |-> FALSE]

BalanceTriggered(usdcBalance) == usdcBalance < MIN_USDC_BALANCE

checkBalance(br, usdcBalance) ==
    [br |-> [br EXCEPT !["balance_check"] = BalanceTriggered(usdcBalance)],
     triggered |-> BalanceTriggered(usdcBalance)]

runAllCircuitBreakerChecks(br, usdcBalance) ==
    LET c1 == checkLossLimit(br)
        c2 == checkWinRate(c1.br)
        c3 == checkDataFreshness(c2.br)
        c4 == checkApiHealth(c3.br)
        c5 == checkBalance(c4.br, usdcBalance)
    IN  [br |-> c5.br,
         triggered |-> c1.triggered \/ c2.triggered \/ c3.triggered
                       \/ c4.triggered \/ c5.triggered]

getActiveBreakers(br) == {b \in BreakerNames : br[b]}

\* ------------------------------------------------------------ state shapes
NoKey == <<"", "">>
Frac(n, d) == [num |-> n, den |-> d]
NoFrac == Frac(0, 1)

\* a callback of timer t that has passed its liveness check
NewTick(t) ==
    [pc |-> "poll", timer |-> t.id, key |-> t.key,
     currentPrice |-> t.currentPrice, usdcBalance |-> t.usdcBalance,
     bestPrice |-> 0, numSafeBets |-> 0, allocation |-> NoFrac,
     shares |-> NoFrac, activeBreakers |-> {}]

InFlight == BagToSet(ticks)
TickEnds(t) == ticks (-) SetToBag({t})
TickMoves(t, u) == (ticks (-) SetToBag({t})) (+) SetToBag({u})

\* normalizeOrder has not been called
NoCall == [fn |-> "none"]

\* scored holds the markets for which the pass has saved a SafetyScore
\* document; waiting holds the invocations of runSafeMarketDetectionLoop
\* that were entered while this one was awaiting
IdlePass ==
    [pc |-> "idle", usdcBalance |-> 0, cursor |-> 0,
     newSafeBets |-> EmptyMap, scored |-> {}, startKey |-> NoKey,
     startPrice |-> 0, waiting |-> <<>>]

\* an invocation that is not the one the event loop is running
Parked(p) ==
    [pc |-> p.pc, usdcBalance |-> p.usdcBalance, cursor |-> p.cursor,
     newSafeBets |-> p.newSafeBets, scored |-> p.scored,
     startKey |-> p.startKey, startPrice |-> p.startPrice]

\* the event loop runs invocation p, the invocations ws wait
Resumed(p, ws) ==
    [pc |-> p.pc, usdcBalance |-> p.usdcBalance, cursor |-> p.cursor,
     newSafeBets |-> p.newSafeBets, scored |-> p.scored,
     startKey |-> p.startKey, startPrice |-> p.startPrice, waiting |-> ws]

MarketCity(m) == IF m = "m1" THEN "London" ELSE "New York"

KeyOrder ==
    <<  <<"m1", "YES">>, <<"m1", "NO">>, <<"m2", "YES">>, <<"m2", "NO">>  >>

KeyIndex(k) == CHOOSE i \in 1..Len(KeyOrder) : KeyOrder[i] = k

OpenPositions(m, s) ==
    {i \in 1..Len(positions) :
        /\ positions[i].market_id = m
        /\ positions[i].side = s
        /\ positions[i].status = "OPEN"}

UsedTimerIds ==
    {t.id : t \in timers}
    \cup {orderbookFetchersActive[k] : k \in DOMAIN orderbookFetchersActive}
    \cup {t.timer : t \in InFlight}

FreeTimerIds(maxTimers) == (1..maxTimers) \ UsedTimerIds

\* clearInterval(id): the timer with this id fires no more
clearInterval(ts, id) == {t \in ts : t.id # id}

Init ==
    /\ botRunning = FALSE
    /\ botPaused = FALSE
    /\ emergencyStop = FALSE
    /\ mainPc = "load"
    /\ safeMarkets = EmptyMap
    /\ orderbookFetchersActive = EmptyMap
    /\ timers = {}
    /\ ticks = EmptyBag
    /\ pass = IdlePass
    /\ positions = <<>>
    /\ breakers = [b \in BreakerNames |-> FALSE]
    /\ readings = [c \in Cities |-> "none"]
    /\ resolved = <<>>
    /\ paperMode \in BOOLEAN
    /\ call = NoCall

\* ------------------------------------------------------- operator commands
\* initializeBotV2, called once by main() before the 60 s interval is set
initializeBotV2 ==
    /\ mainPc = "load"
    /\ mainPc' = "ready"
    /\ botRunning' = TRUE
    /\ botPaused' = FALSE
    /\ emergencyStop' = FALSE
    /\ UNCHANGED <<safeMarkets, orderbookFetchersActive, timers, ticks, pass,
                   positions, breakers, readings, resolved, paperMode, call>>

pauseBot ==
    /\ mainPc = "ready"
    /\ ~botPaused
    /\ botPaused' = TRUE
    /\ UNCHANGED <<botRunning, emergencyStop, mainPc, safeMarkets,
                   orderbookFetchersActive, timers, ticks, pass, positions,
                   breakers, readings, resolved, paperMode, call>>

resumeBot ==
    /\ mainPc = "ready"
    /\ botPaused
    /\ botPaused' = FALSE
    /\ UNCHANGED <<botRunning, emergencyStop, mainPc, safeMarkets,
                   orderbookFetchersActive, timers, ticks, pass, positions,
                   breakers, readings, resolved, paperMode, call>>

\* the registered timers are cleared, both maps are emptied
ClearAllFetchers ==
    /\ timers' = {t \in timers :
                    t.id \notin {orderbookFetchersActive[k] :
                                   k \in DOMAIN orderbookFetchersActive}}
    /\ orderbookFetchersActive' = EmptyMap
    /\ safeMarkets' = EmptyMap

stopBot ==
    /\ mainPc = "ready"
    /\ botRunning' = FALSE
    /\ ClearAllFetchers
    /\ UNCHANGED <<botPaused, emergencyStop, mainPc, ticks, pass, positions,
                   breakers, readings, resolved, paperMode, call>>

triggerEmergencyStop ==
    /\ mainPc = "ready"
    /\ emergencyStop' = TRUE
    /\ botRunning' = FALSE
    /\ ClearAllFetchers
    /\ UNCHANGED <<botPaused, mainPc, ticks, pass, positions, breakers,
                   readings, resolved, paperMode, call>>

\* circuitBreakers.ts: the operator's manual breaker
setEmergencyStop ==
    /\ mainPc = "ready"
    /\ ~breakers["manual_stop"]
    /\ breakers' = [breakers EXCEPT !["manual_stop"] = TRUE]
    /\ UNCHANGED <<botRunning, botPaused, emergencyStop, mainPc, safeMarkets,
                   orderbookFetchersActive, timers, ticks, pass, positions,
                   readings, resolved, paperMode, call>>

resumeTrading ==
    /\ mainPc = "ready"
    /\ breakers["manual_stop"]
    /\ breakers' = [breakers EXCEPT !["manual_stop"] = FALSE]
    /\ UNCHANGED <<botRunning, botPaused, emergencyStop, mainPc, safeMarkets,
                   orderbookFetchersActive, timers, ticks, pass, positions,
                   readings, resolved, paperMode, call>>

\* --------------------------------------------------------- the environment
\* time passes: the stored readings grow older than DATA_FRESHNESS_THRESHOLD
AgeReadings ==
    /\ \E c \in Cities : readings[c] = "fresh"
    /\ readings' = [c \in Cities |->
                      IF readings[c] = "fresh" THEN "stale" ELSE readings[c]]
    /\ UNCHANGED <<botRunning, botPaused, emergencyStop, mainPc, safeMarkets,
                   orderbookFetchersActive, timers, ticks, pass, positions,
                   breakers, resolved, paperMode, call>>

\* ------------------------------------------------------ the promotion loop
LoopSkippedWhilePaused == ~botRunning \/ emergencyStop

LoopSkipped == ~botRunning \/ botPaused \/ emergencyStop

\* runSafeMarketDetectionLoop is entered by the 60 s interval of main().
\* A call that is not skipped does its housekeeping (day rotation, market
\* scan, updateWeatherForTargetCities, each when due) and enters
\* detectSafeBets; updated is the set of cities whose reading was fetched
\* and stored
LoopStart(usdcBalance, updated) ==
    /\ mainPc = "ready"
    /\ pass.pc = "idle"
    /\ IF LoopSkipped
       THEN /\ pass' = [IdlePass EXCEPT !.pc = "skipped"]
            /\ UNCHANGED readings
       ELSE /\ pass' = [IdlePass EXCEPT !.pc = "detect", !.cursor = 1,
                                        !.usdcBalance = usdcBalance]
            /\ readings' = [c \in Cities |->
                              IF c \in updated THEN "fresh" ELSE readings[c]]
    /\ UNCHANGED <<botRunning, botPaused, emergencyStop, mainPc, safeMarkets,
                   orderbookFetchersActive, timers, ticks, positions,
                   breakers, resolved, paperMode, call>>

\* the call returns: after the LOOP_SKIPPED log, or after the portfolio
\* metrics that end a full pass
LoopReturn ==
    /\ pass.pc \in {"skipped", "metrics"}
    /\ pass' = IF pass.waiting = <<>>
               THEN IdlePass
               ELSE Resumed(Head(pass.waiting), Tail(pass.waiting))
    /\ UNCHANGED <<botRunning, botPaused, emergencyStop, mainPc, safeMarkets,
                   orderbookFetchersActive, timers, ticks, positions,
                   breakers, readings, resolved, paperMode, call>>

\* the 60 s interval of main() fires while an earlier call of
\* runSafeMarketDetectionLoop is awaiting: the callback calls the function
\* again, and the new invocation runs up to its first await
LoopOverlaps(usdcBalance, updated, maxOverlap) ==
    /\ mainPc = "ready"
    /\ pass.pc # "idle"
    /\ Len(pass.waiting) < maxOverlap
    /\ IF LoopSkipped
       THEN /\ pass' = [pass EXCEPT !.waiting =
                          Append(@, [Parked(IdlePass) EXCEPT
                                       !.pc = "skipped"])]
            /\ UNCHANGED readings
       ELSE /\ pass' = [pass EXCEPT !.waiting =
                          Append(@, [Parked(IdlePass) EXCEPT
                                       !.pc = "detect", !.cursor = 1,
                                       !.usdcBalance = usdcBalance])]
            /\ readings' = [c \in Cities |->
                              IF c \in updated THEN "fresh" ELSE readings[c]]
    /\ UNCHANGED <<botRunning, botPaused, emergencyStop, mainPc, safeMarkets,
                   orderbookFetchersActive, timers, ticks, positions,
                   breakers, resolved, paperMode, call>>

\* the await of one invocation completes while another one was running:
\* the event loop goes on with the invocation that waited
LoopSwitch ==
    \E i \in 1..Len(pass.waiting) :
        /\ pass' = Resumed(pass.waiting[i],
                           [pass.waiting EXCEPT ![i] = Parked(pass)])
        /\ UNCHANGED <<botRunning, botPaused, emergencyStop, mainPc,
                       safeMarkets, orderbookFetchersActive, timers, ticks,
                       positions, breakers, readings, resolved, paperMode,
                       call>>

\* detectSafeBets, one iteration of the loop over the active markets;
\* quoted says whether the market has both prices, recommendation and price
\* are what the scorer and the market document give.  A market without a
\* reading or without both prices is passed over before calculateSafetyScore,
\* which saves the SafetyScore document
DetectMarket(quoted, recommendation, price) ==
    /\ pass.pc = "detect"
    /\ pass.cursor <= Len(Markets)
    /\ recommendation \in Scored(Markets[pass.cursor])
    /\ LET m == Markets[pass.cursor]
           side == IF recommendation = "BUY_YES" THEN "YES" ELSE "NO"
           scored ==
               /\ readings[MarketCity(m)] # "none"
               /\ quoted
           promoted ==
               /\ scored
               /\ recommendation # "SKIP"
               /\ OpenPositions(m, side) = {}
       IN  pass' = [pass EXCEPT
                      !.cursor = @ + 1,
                      !.scored = IF scored THEN @ \cup {m} ELSE @,
                      !.newSafeBets =
                          IF promoted
                          THEN Put(@, <<m, side>>, [currentPrice |-> price])
                          ELSE @]
    /\ UNCHANGED <<botRunning, botPaused, emergencyStop, mainPc, safeMarkets,
                   orderbookFetchersActive, timers, ticks, positions,
                   breakers, readings, resolved, paperMode, call>>

\* an iteration of detectSafeBets throws (Market.findOne, the save of the
\* SafetyScore document or Position.findOne rejects): the catch that wraps
\* the whole loop logs the error, detectSafeBets returns without assigning
\* safeMarkets and manageOrderbookFetchers is entered
DetectThrows ==
    /\ pass.pc = "detect"
    /\ pass.cursor <= Len(Markets)
    /\ readings[MarketCity(Markets[pass.cursor])] # "none"
    /\ pass' = [pass EXCEPT !.pc = "stopFetchers", !.cursor = 1,
                            !.newSafeBets = EmptyMap, !.scored = {}]
    /\ UNCHANGED <<botRunning, botPaused, emergencyStop, mainPc, safeMarkets,
                   orderbookFetchersActive, timers, ticks, positions,
                   breakers, readings, resolved, paperMode, call>>

\* keys at or after the cursor of a loop of manageOrderbookFetchers
StaleFetcherKeys ==
    {k \in DOMAIN orderbookFetchersActive :
        KeyIndex(k) >= pass.cursor /\ k \notin DOMAIN safeMarkets}

MissingFetcherKeys ==
    {k \in DOMAIN safeMarkets :
        KeyIndex(k) >= pass.cursor /\ k \notin DOMAIN orderbookFetchersActive}

FirstKey(ks) == CHOOSE k \in ks : \A j \in ks : KeyIndex(k) <= KeyIndex(j)

\* safeMarkets = newSafeBets.  A non-empty set is logged (an await) before
\* manageOrderbookFetchers is entered; with an empty set the first loop of
\* manageOrderbookFetchers runs on at once, up to its first await
DetectAssign ==
    /\ pass.pc = "detect"
    /\ pass.cursor > Len(Markets)
    /\ safeMarkets' = pass.newSafeBets
    /\ IF DOMAIN pass.newSafeBets # {}
       THEN /\ pass' = [pass EXCEPT !.pc = "stopFetchers", !.cursor = 1,
                                    !.newSafeBets = EmptyMap,
                                    !.scored = {}]
            /\ UNCHANGED <<timers, orderbookFetchersActive>>
       ELSE IF DOMAIN orderbookFetchersActive = {}
       THEN /\ pass' = [pass EXCEPT !.pc = "metrics", !.cursor = 0,
                                    !.newSafeBets = EmptyMap,
                                    !.scored = {}]
            /\ UNCHANGED <<timers, orderbookFetchersActive>>
       ELSE LET k == FirstKey(DOMAIN orderbookFetchersActive)
            IN  /\ timers' = clearInterval(timers, orderbookFetchersActive[k])
                /\ orderbookFetchersActive' =
                       Remove(orderbookFetchersActive, k)
                /\ pass' = [pass EXCEPT !.pc = "stopFetchers",
                                        !.cursor = KeyIndex(k) + 1,
                                        !.newSafeBets = EmptyMap,
                                        !.scored = {}]
    /\ UNCHANGED <<botRunning, botPaused, emergencyStop, mainPc, ticks,
                   positions, breakers, readings, resolved, paperMode, call>>

\* first loop: the next registered fetcher whose bet is gone is stopped
ManageStop ==
    /\ pass.pc = "stopFetchers"
    /\ StaleFetcherKeys # {}
    /\ LET k == FirstKey(StaleFetcherKeys)
       IN  /\ timers' = clearInterval(timers, orderbookFetchersActive[k])
           /\ orderbookFetchersActive' = Remove(orderbookFetchersActive, k)
           /\ pass' = [pass EXCEPT !.cursor = KeyIndex(k) + 1]
    /\ UNCHANGED <<botRunning, botPaused, emergencyStop, mainPc, safeMarkets,
                   ticks, positions, breakers, readings, resolved, paperMode, call>>

\* second loop: the next bet without a fetcher enters
\* startAggressiveOrderbookFetcher, which awaits its log entry
ManageStartBegin ==
    /\ \/ pass.pc = "stopFetchers" /\ StaleFetcherKeys = {}
       \/ pass.pc = "startFetchers"
    /\ LET missing ==
               IF pass.pc = "stopFetchers"
               THEN {k \in DOMAIN safeMarkets :
                       k \notin DOMAIN orderbookFetchersActive}
               ELSE MissingFetcherKeys
       IN  IF missing = {}
           THEN pass' = [pass EXCEPT !.pc = "metrics", !.cursor = 0]
           ELSE LET k == FirstKey(missing)
                IN  pass' = [pass EXCEPT
                               !.pc = "starting",
                               !.cursor = KeyIndex(k) + 1,
                               !.startKey = k,
                               !.startPrice = safeMarkets[k].currentPrice]
    /\ UNCHANGED <<botRunning, botPaused, emergencyStop, mainPc, safeMarkets,
                   orderbookFetchersActive, timers, ticks, positions,
                   breakers, readings, resolved, paperMode, call>>

\* setInterval and orderbookFetchersActive.set of
\* startAggressiveOrderbookFetcher
ManageStartSet(maxTimers) ==
    /\ pass.pc = "starting"
    /\ FreeTimerIds(maxTimers) # {}
    /\ LET free == FreeTimerIds(maxTimers)
           id == CHOOSE i \in free : \A j \in free : i <= j
       IN  /\ timers' = timers \cup
                  {[id |-> id, key |-> pass.startKey,
                    currentPrice |-> pass.startPrice,
                    usdcBalance |-> pass.usdcBalance]}
           /\ orderbookFetchersActive' =
                  Put(orderbookFetchersActive, pass.startKey, id)
    /\ pass' = [pass EXCEPT !.pc = "startFetchers", !.startKey = NoKey,
                            !.startPrice = 0]
    /\ UNCHANGED <<botRunning, botPaused, emergencyStop, mainPc, safeMarkets,
                   ticks, positions, breakers, readings, resolved, paperMode, call>>

\* ------------------------------------------------------- the polling tasks
\* a comparison that accepts every quote of a book with asks
FavorableAtAnyPrice(bestPrice, currentPrice) ==
    bestPrice >= 0 /\ currentPrice >= 0

\* bestPrice <= safeBet.currentPrice * 1.02
Favorable(bestPrice, currentPrice) ==
    bestPrice * 100 <= currentPrice * SlippagePercent

\* the liveness check that opens every callback of a polling task
FetcherCancelled(safeBetKey) ==
    ~botRunning \/ botPaused \/ emergencyStop
    \/ safeBetKey \notin DOMAIN safeMarkets

\* the callback of a live timer starts
TickFire(maxInflight) ==
    \E t \in timers :
        /\ IF FetcherCancelled(t.key)
           THEN /\ timers' = clearInterval(timers, t.id)
                /\ orderbookFetchersActive' =
                       Remove(orderbookFetchersActive, t.key)
                /\ UNCHANGED ticks
           ELSE /\ BagCardinality(ticks) < maxInflight
                /\ ticks' = ticks (+) SetToBag({NewTick(t)})
                /\ UNCHANGED <<timers, orderbookFetchersActive>>
        /\ UNCHANGED <<botRunning, botPaused, emergencyStop, mainPc, safeMarkets,
                       pass, positions, breakers, readings, resolved, paperMode, call>>

\* a tick whose breaker run, when it triggers, also closes the positions
TickPollLiquidates(quote) ==
    \E t \in InFlight :
        /\ t.pc = "poll"
        /\ LET r == runAllCircuitBreakerChecks(breakers, t.usdcBalance)
           IN  /\ breakers' = r.br
               /\ IF r.triggered
                  THEN /\ timers' = clearInterval(timers, t.timer)
                       /\ orderbookFetchersActive' =
                              Remove(orderbookFetchersActive, t.key)
                       /\ ticks' = TickEnds(t)
                       /\ positions' =
                              [i \in 1..Len(positions) |->
                                  [positions[i] EXCEPT !.status = "CLOSED"]]
                  ELSE /\ UNCHANGED <<timers, orderbookFetchersActive,
                                      positions>>
                       /\ IF quote # 0 /\ Favorable(quote, t.currentPrice)
                          THEN ticks' = TickMoves(t, [t EXCEPT
                                                        !.pc = "allocate",
                                                        !.bestPrice = quote])
                          ELSE ticks' = TickEnds(t)
        /\ UNCHANGED <<botRunning, botPaused, emergencyStop, mainPc, safeMarkets,
                       pass, readings, resolved, paperMode, call>>

\* a tick whose fetch error also cancels the task
TickPollStopsOnError(quote) ==
    \E t \in InFlight :
        /\ t.pc = "poll"
        /\ LET r == runAllCircuitBreakerChecks(breakers, t.usdcBalance)
           IN  /\ breakers' = r.br
               /\ IF r.triggered \/ quote = 0
                  THEN /\ timers' = clearInterval(timers, t.timer)
                       /\ orderbookFetchersActive' =
                              Remove(orderbookFetchersActive, t.key)
                       /\ ticks' = TickEnds(t)
                  ELSE /\ UNCHANGED <<timers, orderbookFetchersActive>>
                       /\ IF Favorable(quote, t.currentPrice)
                          THEN ticks' = TickMoves(t, [t EXCEPT
                                                        !.pc = "allocate",
                                                        !.bestPrice = quote])
                          ELSE ticks' = TickEnds(t)
        /\ UNCHANGED <<botRunning, botPaused, emergencyStop, mainPc, safeMarkets,
                       pass, positions, readings, resolved, paperMode, call>>

\* runAllCircuitBreakerChecks of the tick (a triggered breaker ends the
\* task), then clobClient.getOrderBook answers; quote 0 stands for a fetch
\* error, no book or no asks
TickPoll(quote) ==
    \E t \in InFlight :
        /\ t.pc = "poll"
        /\ LET r == runAllCircuitBreakerChecks(breakers, t.usdcBalance)
           IN  /\ breakers' = r.br
               /\ IF r.triggered
                  THEN /\ timers' = clearInterval(timers, t.timer)
                       /\ orderbookFetchersActive' =
                              Remove(orderbookFetchersActive, t.key)
                       /\ ticks' = TickEnds(t)
                  ELSE /\ UNCHANGED <<timers, orderbookFetchersActive>>
                       /\ IF quote # 0 /\ Favorable(quote, t.currentPrice)
                          THEN ticks' = TickMoves(t, [t EXCEPT
                                                        !.pc = "allocate",
                                                        !.bestPrice = quote])
                          ELSE ticks' = TickEnds(t)
        /\ UNCHANGED <<botRunning, botPaused, emergencyStop, mainPc, safeMarkets,
                       pass, positions, readings, resolved, paperMode, call>>

NumSafeBetsRegistered == Cardinality(DOMAIN orderbookFetchersActive)

NumSafeBets == Cardinality(DOMAIN safeMarkets)

\* usdcBalance / numSafeBets and allocationPerBet / price
AllocationPerBet(usdcBalance, numSafeBets) == Frac(usdcBalance, numSafeBets)

Shares(allocation, price) ==
    Frac(allocation.num * 1000, allocation.den * price)

\* executeAllInTrade sizes the order
TickAllocate ==
    \E t \in InFlight :
        /\ t.pc = "allocate"
        /\ LET allocation == AllocationPerBet(t.usdcBalance, NumSafeBets)
           IN  ticks' = TickMoves(t, [t EXCEPT
                           !.pc = "trade",
                           !.numSafeBets = NumSafeBets,
                           !.allocation = allocation,
                           !.shares = Shares(allocation, t.bestPrice)])
        /\ UNCHANGED <<botRunning, botPaused, emergencyStop, mainPc, safeMarkets,
                       orderbookFetchersActive, timers, pass, positions,
                       breakers, readings, resolved, paperMode, call>>

\* ------------------------------------------------------------ executeTrade
\* shares * currentPrice
TotalCost(shares, price) == Frac(shares.num * price, shares.den * 1000)

\* a fraction with denominator 0 is the Infinity that a division by an
\* empty safeMarkets produces
PreflightError(shares, price, usdcBalance) ==
    LET totalCost == TotalCost(shares, price)
    IN  \/ shares.num <= 0
        \/ price <= 0
        \/ price >= 1000
        \/ totalCost.den = 0
        \/ totalCost.num * 10 > usdcBalance * 9 * totalCost.den

\* Math.round(currentPrice / tickSize) * tickSize
NormalizePrice(price, tickSize) ==
    ((2 * price + tickSize) \div (2 * tickSize)) * tickSize

TickSizes == {10}

NewPosition(t, tickSize) ==
    [market_id |-> t.key[1], side |-> t.key[2],
     buy_price |-> NormalizePrice(t.bestPrice, tickSize),
     shares |-> t.shares,
     total_cost |-> TotalCost(t.shares, t.bestPrice),
     status |-> "OPEN"]

\* the breaker checks and the pre-flight checks that open executeTrade
TickTrade ==
    \E t \in InFlight :
        /\ t.pc = "trade"
        /\ LET r == runAllCircuitBreakerChecks(breakers, t.usdcBalance)
           IN  /\ breakers' = r.br
               /\ IF r.triggered
                     \/ PreflightError(t.shares, t.bestPrice, t.usdcBalance)
                  THEN ticks' = TickEnds(t)
                  ELSE ticks' = TickMoves(t, [t EXCEPT
                                   !.pc = "market",
                                   !.activeBreakers = getActiveBreakers(r.br)])
        /\ UNCHANGED <<botRunning, botPaused, emergencyStop, mainPc, safeMarkets,
                       orderbookFetchersActive, timers, pass, positions,
                       readings, resolved, paperMode, call>>

\* a submission whose failure also drops the bet and cancels its task
TickMarketGivesUp(found, tickSize, filled, maxPositions) ==
    \E t \in InFlight :
        /\ t.pc = "market"
        /\ IF found /\ (paperMode \/ filled)
           THEN /\ Len(positions) < maxPositions
                /\ positions' = Append(positions, NewPosition(t, tickSize))
                /\ ticks' = TickMoves(t, [t EXCEPT !.pc = "recorded"])
                /\ UNCHANGED <<safeMarkets, orderbookFetchersActive, timers>>
           ELSE /\ ticks' = TickMoves(t, [t EXCEPT !.pc = "failed"])
                /\ safeMarkets' = Remove(safeMarkets, t.key)
                /\ orderbookFetchersActive' =
                       Remove(orderbookFetchersActive, t.key)
                /\ timers' = clearInterval(timers, t.timer)
                /\ UNCHANGED positions
        /\ UNCHANGED <<botRunning, botPaused, emergencyStop, mainPc, pass,
                       breakers, readings, resolved, paperMode, call>>

\* clobClient.getMarket answers, then (live trading only) createOrder and
\* postOrder, fill or kill; a filled order, and every paper trade, is stored
\* as an OPEN Position; a market that is not found and an order that is
\* rejected throw into the catch of executeTrade, which saves the ERROR
\* decision
TickMarket(found, tickSize, filled, maxPositions) ==
    \E t \in InFlight :
        /\ t.pc = "market"
        /\ IF found /\ (paperMode \/ filled)
           THEN /\ Len(positions) < maxPositions
                /\ positions' = Append(positions, NewPosition(t, tickSize))
                /\ ticks' = TickMoves(t, [t EXCEPT !.pc = "recorded"])
           ELSE /\ ticks' = TickMoves(t, [t EXCEPT !.pc = "failed"])
                /\ UNCHANGED positions
        /\ UNCHANGED <<botRunning, botPaused, emergencyStop, mainPc, safeMarkets,
                       orderbookFetchersActive, timers, pass, breakers,
                       readings, resolved, paperMode, call>>

\* executeTrade returned success: the fetcher registered under the key is
\* stopped and the bet is removed
TickSuccess ==
    \E t \in InFlight :
        /\ t.pc = "recorded"
        /\ LET k == t.key
           IN  /\ IF k \in DOMAIN orderbookFetchersActive
                  THEN /\ timers' =
                              clearInterval(timers, orderbookFetchersActive[k])
                       /\ orderbookFetchersActive' =
                              Remove(orderbookFetchersActive, k)
                  ELSE UNCHANGED <<timers, orderbookFetchersActive>>
               /\ safeMarkets' = Remove(safeMarkets, k)
        /\ ticks' = TickEnds(t)
        /\ UNCHANGED <<botRunning, botPaused, emergencyStop, mainPc, pass,
                       positions, breakers, readings, resolved, paperMode, call>>

\* the save of the BUY decision rejects after the Position was saved: the
\* catch of executeTrade saves the ERROR decision
TickAuditThrows ==
    \E t \in InFlight :
        /\ t.pc = "recorded"
        /\ ticks' = TickMoves(t, [t EXCEPT !.pc = "failed"])
        /\ UNCHANGED <<botRunning, botPaused, emergencyStop, mainPc, safeMarkets,
                       orderbookFetchersActive, timers, pass, positions,
                       breakers, readings, resolved, paperMode, call>>

\* executeTrade returned an error: executeAllInTrade and the callback
\* return, the bet and its timer are as they were
TickFailure ==
    \E t \in InFlight :
        /\ t.pc = "failed"
        /\ ticks' = TickEnds(t)
        /\ UNCHANGED <<botRunning, botPaused, emergencyStop, mainPc, safeMarkets,
                       orderbookFetchersActive, timers, pass, positions,
                       breakers, readings, resolved, paperMode, call>>

\* ---------------------------------------------------------- normalizeOrder
\* postOrder.ts.  A size is an exact fraction of a token, a price and a tick
\* are integers in millionths; the outputs are the size in units of 10^-5
\* token, the price in millionths and the maker amount in cents.

\* roundDown(size, 5): Math.floor(size * 10 ** 5), size a fraction
FloorScaled(size) ==
    (size.num \div size.den) * 100000
        + ((size.num % size.den) * 100000) \div size.den

Max(a, b) == IF a >= b THEN a ELSE b
Min(a, b) == IF a <= b THEN a ELSE b

normalizeOrder(size, price, tickSize) ==
    LET snapped == ((2 * price + tickSize) \div (2 * tickSize)) * tickSize
        clamped == Max(tickSize, Min(1000000 - tickSize, snapped))
        cents == clamped \div 10000
        normalizedPrice == cents * 10000
        size5 == FloorScaled(size)
        roundedMakerAmount ==
            (size5 \div 100000) * cents
                + ((size5 % 100000) * cents) \div 100000
        normalizedSize ==
            IF normalizedPrice > 0
            THEN (roundedMakerAmount * 100000) \div cents
            ELSE size5
    IN  [normalizedSize |-> normalizedSize,
         normalizedPrice |-> normalizedPrice,
         finalMakerAmountRounded |->
             IF normalizedPrice > 0 THEN roundedMakerAmount ELSE "NaN"]

\* the inputs of the calls: sizes in tokens, prices and ticks in millionths
NormalizerSizes ==
    {Frac(1, 1), Frac(10, 1), Frac(7, 2), Frac(20, 3), Frac(33, 2)}
NormalizerPrices ==
    {4000, 4400, 15667, 30000, 123456, 250000, 495000, 496000, 500000,
     504000, 990000, 999000}
NormalizerTicks == {1000, 10000}
Scenario == [size |-> Frac(10000, 1), price |-> 15667, tickSize |-> 1000]
NormalizerInputs ==
    [size : NormalizerSizes, price : NormalizerPrices,
     tickSize : NormalizerTicks] \cup {Scenario}

\* one call of normalizeOrder
NormalizeCall(in) ==
    /\ call' = [fn |-> "normalizeOrder", in |-> in,
                out |-> normalizeOrder(in.size, in.price, in.tickSize)]
    /\ UNCHANGED <<botRunning, botPaused, emergencyStop, mainPc, safeMarkets,
                   orderbookFetchersActive, timers, ticks, pass, positions,
                   breakers, readings, resolved, paperMode>>

NextNormalizer == \E in \in NormalizerInputs : NormalizeCall(in)

SpecNormalizer == Init /\ [][NextNormalizer]_vars

\* ------------------------------------------------------------ safetyScorer
\* Temperatures are whole degrees, prices are thousandths, a missing price
\* or volume (null) is 0, the expected profit is an exact fraction in percent.
MIN_SAFETY_SCORE == 95
MinRecommendScore == 85
MIN_PROFIT_MARGIN_PERCENT == Frac(1, 2)
POLYMARKET_FEES_PERCENT == Frac(1, 2)

Abs(x) == IF x >= 0 THEN x ELSE -x

DistanceScore(distanceFromThreshold) ==
    IF distanceFromThreshold > 10 THEN 95
    ELSE IF distanceFromThreshold > 5 THEN 85
    ELSE IF distanceFromThreshold > 3 THEN 70
    ELSE IF distanceFromThreshold > 1 THEN 50
    ELSE 20

\* hour is new Date().getHours()
TimeScore(hour) ==
    IF hour >= 18 THEN 90
    ELSE IF hour >= 15 THEN 80
    ELSE IF hour >= 12 THEN 60
    ELSE IF hour >= 9 THEN 40
    ELSE 20

\* Math.round(distanceScore * 0.6 + timeScore * 0.4)
UncertaintyScore(dailyMax, thresholdTemp, hour) ==
    (6 * DistanceScore(Abs(dailyMax - thresholdTemp))
        + 4 * TimeScore(hour) + 5) \div 10

calculateTemperatureCertaintyByDistance(currentTemp, dailyMax, forecastHigh, thresholdTemp, hour) ==
    UncertaintyScore(dailyMax, thresholdTemp, hour)

calculateTemperatureCertaintyScore(currentTemp, dailyMax, forecastHigh, thresholdTemp, hour) ==
    IF dailyMax > thresholdTemp /\ currentTemp > thresholdTemp
    THEN 100
    ELSE UncertaintyScore(dailyMax, thresholdTemp, hour)

calculateMarketPriceSignalScore(yesPrice, noPrice, orderBookSpread, orderBookVolume) ==
    IF yesPrice = 0 \/ noPrice = 0
    THEN 50
    ELSE LET confidence ==
                 IF yesPrice > 950 THEN 25
                 ELSE IF yesPrice < 50 THEN 25
                 ELSE IF (yesPrice > 800 /\ yesPrice < 950)
                         \/ (yesPrice > 50 /\ yesPrice < 200) THEN 15
                 ELSE 0
             depth ==
                 IF orderBookVolume > 10000 THEN 10
                 ELSE IF orderBookVolume > 1000 THEN 5
                 ELSE IF orderBookVolume < 100 THEN -10
                 ELSE 0
             spread == IF orderBookSpread > 200 THEN -15 ELSE 0
         IN  Max(0, Min(100, 50 + confidence + depth + spread))

calculateWeatherStabilityScore(currentTemp, dailyMax, forecastHigh, thresholdTemp) ==
    LET forecastDeviation == Abs(forecastHigh - dailyMax)
        alignment ==
            IF forecastDeviation < 1 THEN 30
            ELSE IF forecastDeviation < 3 THEN 15
            ELSE IF forecastDeviation < 5 THEN 5
            ELSE IF forecastDeviation > 10 THEN -20
            ELSE 0
        trend == IF 10 * currentTemp > 9 * dailyMax THEN -10 ELSE -5
    IN  Max(0, Min(100, 60 + alignment + trend))

\* (1 - price) / price * 100 - POLYMARKET_FEES_PERCENT, never below 0
ProfitOn(price) ==
    LET num == (1000 - price) * 100 * POLYMARKET_FEES_PERCENT.den
                  - POLYMARKET_FEES_PERCENT.num * price
        den == price * POLYMARKET_FEES_PERCENT.den
    IN  IF num < 0 THEN Frac(0, 1) ELSE Frac(num, den)

NoProfit == [num |-> 0, den |-> 0]

calculateExpectedProfit(yesPrice, noPrice, dailyMax, thresholdTemp) ==
    IF yesPrice = 0 \/ noPrice = 0
    THEN NoProfit
    ELSE IF dailyMax > thresholdTemp THEN ProfitOn(yesPrice)
         ELSE ProfitOn(noPrice)

\* !expectedProfitPercent || expectedProfitPercent < MIN_PROFIT_MARGIN_PERCENT
ProfitBelowMinimum(profit) ==
    \/ profit.num = 0
    \/ profit.num * MIN_PROFIT_MARGIN_PERCENT.den
          < MIN_PROFIT_MARGIN_PERCENT.num * profit.den

\* a scorer that adds the component scores without their weights
calculateSafetyScoreUnweighted(in, hour) ==
    LET temperatureCertaintyScore ==
            calculateTemperatureCertaintyScore(in.currentTemp, in.dailyMax,
                in.forecastHigh, in.thresholdTemp, hour)
        marketPriceSignalScore ==
            calculateMarketPriceSignalScore(in.yesPrice, in.noPrice,
                in.orderBookSpread, in.orderBookVolume)
        weatherStabilityScore ==
            calculateWeatherStabilityScore(in.currentTemp, in.dailyMax,
                in.forecastHigh, in.thresholdTemp)
        totalScore ==
            temperatureCertaintyScore + marketPriceSignalScore
                + weatherStabilityScore
        expectedProfitPercent ==
            calculateExpectedProfit(in.yesPrice, in.noPrice, in.dailyMax,
                                    in.thresholdTemp)
    IN  [temperatureCertaintyScore |-> temperatureCertaintyScore,
         marketPriceSignalScore |-> marketPriceSignalScore,
         weatherStabilityScore |-> weatherStabilityScore,
         totalScore |-> totalScore,
         recommendation |->
             IF totalScore < MinRecommendScore THEN "SKIP"
             ELSE IF ProfitBelowMinimum(expectedProfitPercent) THEN "SKIP"
             ELSE IF in.dailyMax > in.thresholdTemp THEN "BUY_YES"
             ELSE "BUY_NO",
         expectedProfitPercent |-> expectedProfitPercent]

calculateSafetyScore(in, hour) ==
    LET temperatureCertaintyScore ==
            calculateTemperatureCertaintyScore(in.currentTemp, in.dailyMax,
                in.forecastHigh, in.thresholdTemp, hour)
        marketPriceSignalScore ==
            calculateMarketPriceSignalScore(in.yesPrice, in.noPrice,
                in.orderBookSpread, in.orderBookVolume)
        weatherStabilityScore ==
            calculateWeatherStabilityScore(in.currentTemp, in.dailyMax,
                in.forecastHigh, in.thresholdTemp)
        totalScore ==
            (4 * temperatureCertaintyScore + 3 * marketPriceSignalScore
                + 2 * weatherStabilityScore + 5) \div 10
        expectedProfitPercent ==
            calculateExpectedProfit(in.yesPrice, in.noPrice, in.dailyMax,
                                    in.thresholdTemp)
    IN  [temperatureCertaintyScore |-> temperatureCertaintyScore,
         marketPriceSignalScore |-> marketPriceSignalScore,
         weatherStabilityScore |-> weatherStabilityScore,
         totalScore |-> totalScore,
         recommendation |->
             IF totalScore < MinRecommendScore THEN "SKIP"
             ELSE IF ProfitBelowMinimum(expectedProfitPercent) THEN "SKIP"
             ELSE IF in.dailyMax > in.thresholdTemp THEN "BUY_YES"
             ELSE "BUY_NO",
         expectedProfitPercent |-> expectedProfitPercent]

\* the condition under which detectSafeBets promotes a scored market
Qualifies(safetyScore) ==
    /\ safetyScore.totalScore >= MIN_SAFETY_SCORE
    /\ safetyScore.recommendation # "SKIP"
    /\ ~ProfitBelowMinimum(safetyScore.expectedProfitPercent)

\* ---------------------------------------------------------- specifications
Operator ==
    \/ initializeBotV2
    \/ pauseBot
    \/ resumeBot
    \/ stopBot
    \/ triggerEmergencyStop

Coordinator(balances, maxTimers) ==
    \/ \E b \in balances, u \in Refreshes : LoopStart(b, u)
    \/ LoopReturn
    \/ \E q \in BOOLEAN, r \in Recommendations, p \in PromoPrices :
          DetectMarket(q, r, p)
    \/ DetectAssign
    \/ ManageStop
    \/ ManageStartBegin
    \/ ManageStartSet(maxTimers)

Worker(maxInflight, maxPositions) ==
    \/ TickFire(maxInflight)
    \/ \E q \in Quotes : TickPoll(q)
    \/ TickAllocate
    \/ TickTrade
    \/ \E f \in BOOLEAN, ts \in TickSizes, o \in BOOLEAN :
          TickMarket(f, ts, o, maxPositions)
    \/ TickSuccess
    \/ TickFailure

\* The engine under a calm environment: the readings stay fresh, the
\* balance is sufficient, no position resolves; the ticks of the polling
\* tasks do not overlap
Next ==
    \/ Operator
    \/ Coordinator(LoopBalances, MaxTimers)
    \/ Worker(MaxInflight, MaxPositions)

Spec == Init /\ [][Next]_vars

\* The same engine with ticks that overlap: the callback of a timer is
\* still awaiting I/O when a timer fires again
NextRace ==
    \/ Operator
    \/ Coordinator(LoopBalances, MaxTimers + 1)
    \/ Worker(MaxInflight + 1, MaxPositions + 1)

SpecRace == Init /\ [][NextRace]_vars

\* The engine under risk: the readings age, the balance may be below the
\* floor, the operator sets and clears the manual breaker
NextRisk ==
    \/ Operator
    \/ setEmergencyStop
    \/ resumeTrading
    \/ AgeReadings
    \/ Coordinator(Balances, MaxTimers)
    \/ Worker(MaxInflight, MaxPositions)

SpecRisk == Init /\ [][NextRisk]_vars

\* The breaker registry alone, without any operator action: runs of the
\* evaluators against a store in which positions resolve and readings age
RunBreakerChecks(usdcBalance) ==
    /\ mainPc = "ready"
    /\ breakers' = runAllCircuitBreakerChecks(breakers, usdcBalance).br
    /\ UNCHANGED <<botRunning, botPaused, emergencyStop, mainPc, safeMarkets,
                   orderbookFetchersActive, timers, ticks, pass, positions,
                   readings, resolved, paperMode, call>>

\* a position resolves with a profit or a loss
PositionResolved(pnl) ==
    /\ mainPc = "ready"
    /\ Len(resolved) < MaxResolved
    /\ resolved' = Append(resolved, pnl)
    /\ UNCHANGED <<botRunning, botPaused, emergencyStop, mainPc, safeMarkets,
                   orderbookFetchersActive, timers, ticks, pass, positions,
                   breakers, readings, paperMode, call>>

\* updateWeatherData stores a reading for every city of updated
WeatherUpdated(updated) ==
    /\ mainPc = "ready"
    /\ updated # {}
    /\ readings' = [c \in Cities |->
                      IF c \in updated THEN "fresh" ELSE readings[c]]
    /\ UNCHANGED <<botRunning, botPaused, emergencyStop, mainPc, safeMarkets,
                   orderbookFetchersActive, timers, ticks, pass, positions,
                   breakers, resolved, paperMode, call>>

NextBreakers ==
    \/ initializeBotV2
    \/ AgeReadings
    \/ \E u \in Refreshes : WeatherUpdated(u)
    \/ \E p \in PnLs : PositionResolved(p)
    \/ \E b \in Balances : RunBreakerChecks(b)

SpecBreakers == Init /\ [][NextBreakers]_vars

\* The breaker registry with its operator: the manual breaker is set and
\* cleared between the runs of the evaluators
NextManual ==
    \/ NextBreakers
    \/ setEmergencyStop
    \/ resumeTrading

SpecManual == Init /\ [][NextManual]_vars

\* The engine against a venue that quotes a price off the cent grid and
\* lists markets with a tick of 0.001 as well as 0.01
VenueQuotes == {0, 495, 600}
VenueTickSizes == {1, 10}

NextVenue ==
    \/ initializeBotV2
    \/ Coordinator(LoopBalances, MaxTimers)
    \/ TickFire(MaxInflight)
    \/ \E q \in VenueQuotes : TickPoll(q)
    \/ TickAllocate
    \/ TickTrade
    \/ \E f \in BOOLEAN, ts \in VenueTickSizes, o \in BOOLEAN :
          TickMarket(f, ts, o, MaxPositions)
    \/ TickSuccess
    \/ TickFailure

SpecVenue == Init /\ [][NextVenue]_vars

\* The scorer alone: calls of calculateSafetyScore with the inputs that
\* detectSafeBets builds (orderBookSpread is |yes_price - no_price|), at
\* any hour
Thresholds == {80}
DailyMaxes == {75, 79, 80, 81, 85, 92}
CurrentTemps == {70, 81, 82, 85}
ForecastOffsets == {0, 2, 12}
YesPrices == {0, 40, 500, 920, 960}
Volumes == {0, 20000}
Hours == {8, 10, 13, 16, 19}

ScoringInput(th, mx, cur, off, yes, vol) ==
    [currentTemp |-> cur, dailyMax |-> mx, forecastHigh |-> mx + off,
     thresholdTemp |-> th, yesPrice |-> yes,
     noPrice |-> IF yes = 0 THEN 0 ELSE 1000 - yes,
     orderBookSpread |-> IF yes = 0 THEN 0 ELSE Abs(2 * yes - 1000),
     orderBookVolume |-> vol]

ScorerInputs ==
    {ScoringInput(th, mx, cur, off, yes, vol) :
        th \in Thresholds, mx \in DailyMaxes,
        cur \in CurrentTemps, off \in ForecastOffsets,
        yes \in YesPrices, vol \in Volumes}

ScoreCall(in, hour) ==
    /\ call = NoCall
    /\ in.currentTemp <= in.dailyMax
    /\ call' = [fn |-> "calculateSafetyScore", in |-> in, hour |-> hour,
                out |-> calculateSafetyScore(in, hour)]
    /\ UNCHANGED <<botRunning, botPaused, emergencyStop, mainPc, safeMarkets,
                   orderbookFetchersActive, timers, ticks, pass, positions,
                   breakers, readings, resolved, paperMode>>

NextScorer == \E in \in ScorerInputs, hour \in Hours : ScoreCall(in, hour)

SpecScorer == Init /\ [][NextScorer]_vars

\* The engine with a breaker that trips and no operator: the balance handed
\* to a pass may be below the floor
NextGuard ==
    \/ initializeBotV2
    \/ Coordinator(Balances, MaxTimers)
    \/ Worker(MaxInflight, MaxPositions)

SpecGuard == Init /\ [][NextGuard]_vars

\* The engine against a store that fails: a lookup or a save of an
\* iteration of detectSafeBets may reject
NextFaulty ==
    \/ initializeBotV2
    \/ Coordinator(LoopBalances, MaxTimers)
    \/ DetectThrows
    \/ Worker(MaxInflight, MaxPositions)

SpecFaulty == Init /\ [][NextFaulty]_vars

\* The polling tasks against a book whose best ask sits at the slippage
\* bound or just above it, or that has no asks; every market is listed with
\* a tick of 0.01
BoundQuotes == {0, 510, 511}

NextPolling ==
    \/ initializeBotV2
    \/ Coordinator(LoopBalances, MaxTimers)
    \/ TickFire(MaxInflight)
    \/ \E q \in BoundQuotes : TickPoll(q)
    \/ TickAllocate
    \/ TickTrade
    \/ \E o \in BOOLEAN : TickMarket(TRUE, 10, o, MaxPositions)
    \/ TickSuccess
    \/ TickFailure

SpecPolling == Init /\ [][NextPolling]_vars

\* The engine with a task that is started again: a callback may still be
\* in flight when a pass stops its task, and a later pass promotes the same
\* key and starts a second timer; the balance handed to a pass may be below
\* the floor
NextRestart ==
    \/ initializeBotV2
    \/ Coordinator(Balances, MaxTimers + 1)
    \/ Worker(MaxInflight, MaxPositions)

SpecRestart == Init /\ [][NextRestart]_vars

\* The coordinator with passes that outlast the 60 s interval: the interval
\* fires again while a call of runSafeMarketDetectionLoop is awaiting I/O
NextOverlap ==
    \/ initializeBotV2
    \/ Coordinator(LoopBalances, MaxTimers + 1)
    \/ \E b \in LoopBalances, u \in Refreshes : LoopOverlaps(b, u, MaxOverlap)
    \/ LoopSwitch

SpecOverlap == Init /\ [][NextOverlap]_vars

\* The engine against a store that may reject the save of the audit record
\* of an executed trade
NextAudit ==
    \/ initializeBotV2
    \/ Coordinator(LoopBalances, MaxTimers)
    \/ Worker(MaxInflight, MaxPositions)
    \/ TickAuditThrows

SpecAudit == Init /\ [][NextAudit]_vars

\* The engine with market prices that move between passes: a pass may
\* promote a key at another price than the pass before
MovingPrices == {400, 500}

NextReprice ==
    \/ initializeBotV2
    \/ \E b \in LoopBalances, u \in Refreshes : LoopStart(b, u)
    \/ LoopReturn
    \/ \E q \in BOOLEAN, r \in Recommendations, p \in MovingPrices :
          DetectMarket(q, r, p)
    \/ DetectAssign
    \/ ManageStop
    \/ ManageStartBegin
    \/ ManageStartSet(MaxTimers)
    \/ Worker(MaxInflight, MaxPositions)

SpecReprice == Init /\ [][NextReprice]_vars

\* The breaker registry against a store whose queries may reject: failing
\* names the evaluators whose Position.find throws in a run.  The catch of
\* an evaluator logs the error and returns false, and the evaluator has
\* written no breaker record
QueryFailures == SUBSET {"loss_limit", "win_rate"}

Unevaluated(br) == [br |-> br, triggered |-> FALSE]

runAllCircuitBreakerChecksWhen(br, usdcBalance, failing) ==
    LET c1 == IF "loss_limit" \in failing
              THEN Unevaluated(br) ELSE checkLossLimit(br)
        c2 == IF "win_rate" \in failing
              THEN Unevaluated(c1.br) ELSE checkWinRate(c1.br)
        c3 == checkDataFreshness(c2.br)
        c4 == checkApiHealth(c3.br)
        c5 == checkBalance(c4.br, usdcBalance)
    IN  [br |-> c5.br,
         triggered |-> c1.triggered \/ c2.triggered \/ c3.triggered
                       \/ c4.triggered \/ c5.triggered]

\* a run of runAllCircuitBreakerChecks, as the callback of a polling task
\* and executeTrade make it before an order
BreakerRunCall(usdcBalance, failing) ==
    /\ mainPc = "ready"
    /\ LET r == runAllCircuitBreakerChecksWhen(breakers, usdcBalance, failing)
       IN  /\ breakers' = r.br
           /\ call' = [fn |-> "runAllCircuitBreakerChecks",
                       usdcBalance |-> usdcBalance, failing |-> failing,
                       lossLimit |-> LossLimitTriggered,
                       out |-> r.triggered]
    /\ UNCHANGED <<botRunning, botPaused, emergencyStop, mainPc, safeMarkets,
                   orderbookFetchersActive, timers, ticks, pass, positions,
                   readings, resolved, paperMode>>

NextOutage ==
    \/ initializeBotV2
    \/ \E p \in PnLs : PositionResolved(p)
    \/ \E b \in Balances, f \in QueryFailures : BreakerRunCall(b, f)

SpecOutage == Init /\ [][NextOutage]_vars

\* The market store alone: calls of getActiveMarkets, as detectSafeBets makes
\* them, against every content of the Market collection, after the day
\* rotation of the pass or without it.  A market date is a whole number of
\* days from today (local midnight, as parseWeatherMarketQuestion builds it).
MarketDates == -1..3

\* a Market document: stored active by storeMarket, deactivated by
\* performDayRotation, resolved and deactivated by resolveMarket
MarketDocs ==
    {[active |-> TRUE, resolved |-> FALSE, market_date |-> d] :
        d \in MarketDates}
    \cup {[active |-> FALSE, resolved |-> r, market_date |-> d] :
            r \in BOOLEAN, d \in MarketDates}

MarketIds == {Markets[i] : i \in 1..Len(Markets)}

MarketStores == [MarketIds -> MarketDocs]

\* Market.updateMany({market_date: {$lt: now}, active: true}, {active: false})
performDayRotation(docs) ==
    LET now == 0
    IN  [m \in DOMAIN docs |->
            IF docs[m].market_date < now /\ docs[m].active
            THEN [docs[m] EXCEPT !.active = FALSE]
            ELSE docs[m]]

getActiveMarkets(docs) ==
    LET today == 0
        tomorrow == today + 2
    IN  {m \in DOMAIN docs :
            /\ docs[m].active
            /\ ~docs[m].resolved
            /\ docs[m].market_date >= today
            /\ docs[m].market_date <= tomorrow}

ActiveMarketsCall(docs, rotationDue) ==
    /\ call = NoCall
    /\ LET store == IF rotationDue THEN performDayRotation(docs) ELSE docs
       IN  call' = [fn |-> "getActiveMarkets", in |-> store,
                    out |-> getActiveMarkets(store)]
    /\ UNCHANGED <<botRunning, botPaused, emergencyStop, mainPc, safeMarkets,
                   orderbookFetchersActive, timers, ticks, pass, positions,
                   breakers, readings, resolved, paperMode>>

NextCalendar ==
    \E docs \in MarketStores, rotationDue \in BOOLEAN :
        ActiveMarketsCall(docs, rotationDue)

SpecCalendar == Init /\ [][NextCalendar]_vars

\* ------------------------------------------------------------------ claims
PositionsOf(k) ==
    {i \in 1..Len(positions) :
        positions[i].market_id = k[1] /\ positions[i].side = k[2]}

\* C1: for every SafeBet key, whatever the interleaving of the ticks of its
\* polling task, at most one Position is ever created for the key.
C1_AtMostOnePositionPerBet ==
    \A k \in Keys : Cardinality(PositionsOf(k)) <= 1

\* C2: in every reachable state each (market_id, side) pair has at most one
\* Position with status OPEN.
C2_AtMostOneOpenPosition ==
    \A i \in 1..Len(Markets), sd \in Sides :
        Cardinality(OpenPositions(Markets[i], sd)) <= 1

PassReplacesSafeBets == pass.pc = "detect" /\ pass'.pc # "detect"

\* C3: whenever a promotion pass replaces the SafeBet set, no key of the new
\* set has an OPEN Position on its instrument and side, also when a fill
\* happened while the pass was in progress.
C3_NoFilledBetRepromoted ==
    [][PassReplacesSafeBets =>
          \A k \in DOMAIN safeMarkets' : OpenPositions(k[1], k[2])' = {}]_vars

\* C4: an execution attempt made while some breaker record is ACTIVE
\* creates no Position.
C4_ActiveBreakerVetoesExecution ==
    \A t \in InFlight : t.pc = "recorded" => t.activeBreakers = {}

\* C5: once triggerEmergencyStop has been issued the manual breaker
\* manual_stop is ACTIVE.
C5_EmergencyStopMarksManualBreaker ==
    emergencyStop => breakers["manual_stop"]

\* C6: after stopBot or triggerEmergencyStop the SafeBet set is empty and no
\* polling timer is live, in every later state.
C6_StopClearsForGood ==
    (mainPc = "ready" /\ ~botRunning) =>
        (DOMAIN safeMarkets = {} /\ timers = {})

Halted == ~botRunning \/ botPaused \/ emergencyStop

\* C7: an invocation of runSafeMarketDetectionLoop made while the bot is
\* stopped, emergency-stopped or paused is skipped: it never enters
\* detection, it adds no bet and starts no timer; and the emergency flag,
\* once set, stays set, so this holds for every invocation after an
\* emergency stop.
C7_HaltedLoopPromotesNothing ==
    [][/\ (Halted /\ pass.pc = "idle") => pass'.pc \in {"idle", "skipped"}
       /\ pass.pc = "skipped" =>
             /\ pass'.pc \in {"skipped", "idle"}
             /\ DOMAIN safeMarkets' \subseteq DOMAIN safeMarkets
             /\ timers' \subseteq timers
       /\ emergencyStop => emergencyStop']_vars

C7_Witness ==
    /\ pass.pc = "skipped"
    /\ emergencyStop
    /\ botPaused

\* C8: a tick that sizes its order allocates usdcBalance / k and
\* (usdcBalance / k) / price shares, k being the size of the SafeBet set at
\* that moment.
C8_AllocationSplitsAtExecution ==
    [][\A u \in BagToSet(ticks') :
          (u.pc = "trade" /\ CopiesIn(u, ticks') > CopiesIn(u, ticks)) =>
             /\ u.numSafeBets = Cardinality(DOMAIN safeMarkets)
             /\ u.allocation.num = u.usdcBalance
             /\ u.allocation.den = Cardinality(DOMAIN safeMarkets)
             /\ u.shares.num * u.allocation.den * u.bestPrice
                   = u.allocation.num * 1000 * u.shares.den]_vars

\* the second bet of a pair is sized after the first one was filled: one
\* bet is left, two were promoted
C8_Witness ==
    \E t \in InFlight :
        /\ t.pc = "trade"
        /\ t.numSafeBets = 1
        /\ t.allocation = Frac(t.usdcBalance, 1)
        /\ Len(positions) = 1

ManageCompletes == pass.pc # "metrics" /\ pass'.pc = "metrics"

\* C9: each time manageOrderbookFetchers completes, the keys with a
\* registered polling task are the keys of the SafeBet set.
C9_FetchersMatchSafeBets ==
    [][ManageCompletes =>
          DOMAIN orderbookFetchersActive' = DOMAIN safeMarkets']_vars

AutomaticBreakers ==
    {"loss_limit", "win_rate", "data_freshness", "api_health",
     "balance_check"}

ConditionHolds(b, usdcBalance) ==
    CASE b = "loss_limit" -> LossLimitTriggered
      [] b = "win_rate" -> WinRateTriggered
      [] b = "data_freshness" ->
            \E c \in Cities : readings[c] = "stale"
      [] b = "api_health" -> FALSE
      [] b = "balance_check" -> usdcBalance < MIN_USDC_BALANCE

C11_OnlyResumeClearsManualStop ==
    [][(breakers["manual_stop"] /\ ~breakers'["manual_stop"])
          => resumeTrading]_vars

\* manual_stop is ACTIVE next to an automatic breaker that a run of the
\* evaluators has activated and another that a run has cleared again
C11_Witness ==
    /\ breakers["manual_stop"]
    /\ breakers["loss_limit"]
    /\ ~LossLimitTriggered
    /\ breakers["balance_check"]

\* the fraction size is exactly s5 units of 10^-5 token
SizeIs(size, s5) ==
    /\ size.den > 0
    /\ FloorScaled(size) = s5
    /\ ((size.num % size.den) * 100000) % size.den = 0

\* C12: every order that executeTrade submits carries the size and the
\* price that normalizeOrder returns for the shares, the quote and the tick
\* of the execution (seen on the orders that fill: the Position stores the
\* size and the price of the order).
C12_SubmittedOrderIsNormalized ==
    [][(~paperMode /\ Len(positions') = Len(positions) + 1) =>
          \E t \in InFlight, ts \in VenueTickSizes :
             /\ t.pc = "market"
             /\ positions'[Len(positions')] = NewPosition(t, ts)
             /\ LET order == NewPosition(t, ts)
                    n == normalizeOrder(t.shares, t.bestPrice * 1000,
                                        ts * 1000)
                IN  /\ SizeIs(order.shares, n.normalizedSize)
                    /\ order.buy_price * 1000 = n.normalizedPrice]_vars

Called == call.fn = "normalizeOrder"

\* the price returned by the call, in cents
OutCents == call.out.normalizedPrice \div 10000

\* C13: the price that normalizeOrder returns is an integer multiple of the
\* tick and lies strictly between tick and 1 - tick.
C13_PriceOnTickInsideBand ==
    Called =>
       /\ call.out.normalizedPrice % call.in.tickSize = 0
       /\ call.in.tickSize < call.out.normalizedPrice
       /\ call.out.normalizedPrice < 1000000 - call.in.tickSize

\* C14: normalizedSize x normalizedPrice never exceeds the authorized
\* notional, input size x input price (both sides in units of 10^-7 dollar,
\* multiplied by the denominator of the input size).
C14_CostWithinAuthorized ==
    Called =>
       call.out.normalizedSize * OutCents * call.in.size.den
          <= call.in.size.num * call.in.price * 10

\* C15: normalizedSize x normalizedPrice is a whole number of cents.
C15_CostHasTwoDecimals ==
    Called => (call.out.normalizedSize * OutCents) % 100000 = 0

\* C16: for size 10000, price 0.015667 and tick 0.001 the call returns the
\* price 0.015 and a size that differs from the size truncated to 5
\* decimals.
C16_ScenarioSnapsToFifteenMills ==
    (Called /\ call.in = Scenario) =>
       /\ call.out.normalizedPrice = 15000
       /\ call.out.normalizedSize # FloorScaled(call.in.size)

Scored85Over80At92 ==
    /\ call.fn = "calculateSafetyScore"
    /\ call.in.thresholdTemp = 80
    /\ call.in.dailyMax = 85
    /\ call.in.currentTemp > 80
    /\ call.in.yesPrice = 920

\* C17: with threshold 80, observed extreme 85, current reading above the
\* threshold, YES price 0.92 and fee 0.5 the expected profit is
\* (1 - 0.92) / 0.92 * 100 - 0.5, the recommendation is BUY_YES, the total
\* score reaches MIN_SAFETY_SCORE and detectSafeBets promotes the bet.
C17_PeakedScenarioIsPromoted ==
    Scored85Over80At92 =>
       /\ call.out.expectedProfitPercent.num * 920 * 2
             = (80 * 100 * 2 - 920) * call.out.expectedProfitPercent.den
       /\ call.out.recommendation = "BUY_YES"
       /\ call.out.totalScore >= MIN_SAFETY_SCORE
       /\ Qualifies(call.out)

\* C18: when the observed extreme and the current reading both exceed the
\* threshold, the temperature-certainty score is 100 at every hour.
C18_PeakedOutcomeIsCertain ==
    (/\ call.fn = "calculateSafetyScore"
     /\ call.in.dailyMax > call.in.thresholdTemp
     /\ call.in.currentTemp > call.in.thresholdTemp)
        => call.out.temperatureCertaintyScore = 100

\* the outcome has happened, it is early morning and the extreme is five
\* degrees over the threshold: distance and time would score 50
C18_Witness ==
    /\ call.fn = "calculateSafetyScore"
    /\ call.in.dailyMax = call.in.thresholdTemp + 5
    /\ call.in.currentTemp > call.in.thresholdTemp
    /\ call.hour < 9
    /\ UncertaintyScore(call.in.dailyMax, call.in.thresholdTemp, call.hour)
          = 50
    /\ call.out.temperatureCertaintyScore = 100

\* the bot stays paused and no stop is issued
StaysPaused ==
    /\ botPaused /\ botPaused'
    /\ botRunning /\ botRunning'
    /\ ~emergencyStop'

\* C19: from pauseBot until resumeBot no bet leaves the SafeBet set and no
\* polling task is cancelled, neither by the pause nor by a tick that
\* occurs while paused.
C19_PauseKeepsBetsAndTasks ==
    [][StaysPaused =>
          /\ DOMAIN safeMarkets \subseteq DOMAIN safeMarkets'
          /\ timers \subseteq timers'
          /\ DOMAIN orderbookFetchersActive
                \subseteq DOMAIN orderbookFetchersActive']_vars

\* C20: a step that evaluates the breakers or changes a breaker record
\* leaves every Position as it is.
C20_BreakersLeavePositionsAlone ==
    [][breakers' # breakers => positions' = positions]_vars

\* a breaker has been activated while a Position is OPEN
C20_Witness ==
    /\ Len(positions) > 0
    /\ positions[1].status = "OPEN"
    /\ breakers["balance_check"]

\* C21: every market that getActiveMarkets hands to a promotion pass is
\* active, unresolved and dated today or tomorrow; a market dated the day
\* after tomorrow or later, or before today, is not among them.
C21_ConsideredWithinTodayTomorrow ==
    call.fn = "getActiveMarkets" =>
       \A m \in call.out :
          /\ call.in[m].active
          /\ ~call.in[m].resolved
          /\ call.in[m].market_date \in {0, 1}

\* C22: when a tick submits its order, the evaluators have run in the same
\* attempt after the quote (the tick has passed executeTrade's check), and
\* no breaker condition holds at the moment of the submission: a condition
\* that became true after the check blocks the execution in flight.
C22_NoBreakerTripsBeforeSubmission ==
    [][\A t \in InFlight :
          (t.pc = "market" /\ Len(positions') = Len(positions) + 1) =>
             ~runAllCircuitBreakerChecks(breakers, t.usdcBalance).triggered]_vars

DetectReturns == pass.pc = "detect" /\ pass'.pc # "detect"

\* C23: when detectSafeBets returns, also after an iteration has failed,
\* every key of the SafeBet set was promoted by that same pass; a bet of an
\* earlier pass that did not qualify again is gone.
C23_NoStaleBetSurvivesPass ==
    [][DetectReturns =>
          DOMAIN safeMarkets' \subseteq DOMAIN pass.newSafeBets]_vars

\* C24: a failure on one market does not end the pass: detectSafeBets
\* returns only after the loop has gone through every active market.
C24_FailureSkipsOneMarketOnly ==
    [][DetectReturns => pass.cursor > Len(Markets)]_vars

\* C25: when detectSafeBets returns, a SafetyScore document has been saved
\* for every active market, also for a market whose reading or prices are
\* missing.
C25_EveryMarketIsAudited ==
    [][DetectReturns => pass.scored = MarketIds]_vars

C27_CleanupPrecedesNextTick ==
    [][\A u \in BagToSet(ticks') :
          (u.pc = "poll" /\ CopiesIn(u, ticks') > CopiesIn(u, ticks)) =>
             ~\E t \in InFlight : t.pc = "recorded" /\ t.timer = u.timer]_vars

\* the tick's breaker run triggers
BreakerTrips(t) ==
    runAllCircuitBreakerChecks(breakers, t.usdcBalance).triggered

\* C28: a poll that fails (fetch error, no book, no asks) or finds no
\* favorable price ends the tick and leaves the timer and its registration
\* alone; a timer is cleared only when its bet is out of the SafeBet set, a
\* stop or pause flag is set, or a tick of the task saw a breaker trigger.
C28_PollFailureKeepsTask ==
    [][/\ \A t \in InFlight :
             (t.pc = "poll" /\ ticks' = TickEnds(t) /\ ~BreakerTrips(t)) =>
                /\ timers' = timers
                /\ orderbookFetchersActive' = orderbookFetchersActive
       /\ \A tm \in timers \ timers' :
             \/ tm.key \notin DOMAIN safeMarkets'
             \/ ~botRunning'
             \/ botPaused'
             \/ emergencyStop'
             \/ \E t \in InFlight :
                   t.pc = "poll" /\ t.timer = tm.id /\ BreakerTrips(t)]_vars

\* a tick of a live task is about to fetch the book: the bot runs, the bet
\* is in the SafeBet set, the timer is live and registered, no breaker
\* condition holds
C28_Witness ==
    /\ botRunning /\ ~botPaused /\ ~emergencyStop
    /\ \E t \in InFlight :
          /\ t.pc = "poll"
          /\ ~BreakerTrips(t)
          /\ t.key \in DOMAIN safeMarkets
          /\ t.key \in DOMAIN orderbookFetchersActive
          /\ orderbookFetchersActive[t.key] = t.timer
          /\ \E tm \in timers : tm.id = t.timer

\* C29: a tick whose key is no longer in the SafeBet set when it reaches
\* executeAllInTrade is rejected there: it computes no allocation and enters
\* no execution.
C29_RemovedBetIsNotExecuted ==
    [][\A u \in BagToSet(ticks') :
          (u.pc = "trade" /\ CopiesIn(u, ticks') > CopiesIn(u, ticks)) =>
             u.key \in DOMAIN safeMarkets]_vars

\* ten times the weighted sum 0.4, 0.3, 0.2 of the component scores
WeightedTenths(out) ==
    4 * out.temperatureCertaintyScore + 3 * out.marketPriceSignalScore
        + 2 * out.weatherStabilityScore

\* C30: the total score that calculateSafetyScore returns is the weighted
\* sum of its three component scores (0.4, 0.3, 0.2) rounded to the nearest
\* integer, a tie upwards, and it lies between 0 and 100.
C30_TotalIsRoundedWeightedSum ==
    call.fn = "calculateSafetyScore" =>
       /\ 10 * call.out.totalScore - 5 <= WeightedTenths(call.out)
       /\ WeightedTenths(call.out) < 10 * call.out.totalScore + 5
       /\ call.out.totalScore >= 0
       /\ call.out.totalScore <= 100

\* a call whose weighted sum is not an integer and is rounded upwards, with
\* three different component scores
C30_Witness ==
    /\ call.fn = "calculateSafetyScore"
    /\ WeightedTenths(call.out) % 10 >= 5
    /\ 10 * call.out.totalScore > WeightedTenths(call.out)
    /\ call.out.temperatureCertaintyScore # call.out.marketPriceSignalScore
    /\ call.out.marketPriceSignalScore # call.out.weatherStabilityScore

\* values of process.env.MIN_SAFETY_SCORE: the default and a lower setting
MinSafetyScoreSettings == {75, MIN_SAFETY_SCORE}

\* C31: whatever MIN_SAFETY_SCORE is configured, calculateSafetyScore
\* recommends SKIP exactly when the total score is below it or the expected
\* profit is missing or below MIN_PROFIT_MARGIN_PERCENT; otherwise BUY_YES
\* when the daily maximum exceeds the threshold and BUY_NO when it does not.
C31_SkipExactlyBelowThreshold ==
    call.fn = "calculateSafetyScore" =>
       \A minSafetyScore \in MinSafetyScoreSettings :
          call.out.recommendation =
             IF \/ call.out.totalScore < minSafetyScore
                \/ ProfitBelowMinimum(call.out.expectedProfitPercent)
             THEN "SKIP"
             ELSE IF call.in.dailyMax > call.in.thresholdTemp
             THEN "BUY_YES"
             ELSE "BUY_NO"

\* C32: when the daily maximum is within one degree of the threshold, the
\* temperature-certainty score comes from the lowest distance score (20)
\* and is at most 0.6 * 20 + 0.4 * 90 = 48, at every hour and for every
\* current reading.
C32_NearThresholdIsNeverCertain ==
    (/\ call.fn = "calculateSafetyScore"
     /\ Abs(call.in.dailyMax - call.in.thresholdTemp) <= 1)
        => call.out.temperatureCertaintyScore <= 48

ClearsOwnTimer(id) ==
    /\ id \in {t.id : t \in timers}
    /\ id \notin {t.id : t \in timers'}
    /\ UNCHANGED <<pass, safeMarkets, botRunning>>

\* C34: once a polling task has cleared its own timer (its key left
\* safeMarkets, a flag is set or a breaker tripped), no callback of that
\* task is left that fetches a quote or submits an order.
C34_ClearedTaskFetchesNoMore ==
    [][\A id \in {t.id : t \in timers} :
          ClearsOwnTimer(id) => \A u \in BagToSet(ticks') : u.timer # id
      ]_vars

\* C35: at every moment there is at most one live timer per SafeBet key, and
\* every live timer is the one registered under its key in
\* orderbookFetchersActive.
C35_EveryLiveTimerIsRegistered ==
    /\ \A t, u \in timers : t.key = u.key => t = u
    /\ \A t \in timers :
          /\ t.key \in DOMAIN orderbookFetchersActive
          /\ orderbookFetchersActive[t.key] = t.id

\* invocations of runSafeMarketDetectionLoop that passed the check of the
\* flags and have not returned
PromotionPasses ==
    (IF pass.pc \in {"idle", "skipped"} THEN 0 ELSE 1)
    + Cardinality({i \in 1..Len(pass.waiting) :
                      pass.waiting[i].pc # "skipped"})

\* C36: at every moment at most one invocation of
\* runSafeMarketDetectionLoop is in progress; a tick of the 60 s interval
\* that fires during a pass does not run a second promotion pass.
C36_OnePassAtATime == PromotionPasses <= 1

\* C37: with k >= 1 live SafeBets, the order that executeAllInTrade sizes
\* (usdcBalance / k at the quoted price) passes the pre-flight checks of
\* executeTrade, also when k = 1.
C37_AllInOrderPassesPreflight ==
    \A t \in InFlight :
        (t.pc = "trade" /\ t.numSafeBets >= 1)
           => ~PreflightError(t.shares, t.bestPrice, t.usdcBalance)

\* C38: an execution attempt that ends without reporting success has
\* persisted no Position: an attempt that has saved its Position (the tick
\* is at "recorded") does not go on to return success = false.
C38_FailedAttemptLeavesNoPosition ==
    [][\A t \in InFlight :
          t.pc = "recorded"
             => LET failed == [t EXCEPT !.pc = "failed"]
                IN  CopiesIn(failed, ticks') <= CopiesIn(failed, ticks)
      ]_vars

\* C39: the price a polling task compares the quote with is the price
\* recorded for its key in safeMarkets at that moment: after a pass has
\* replaced the entry of a running task, the ticks use the new price.
C39_TaskComparesWithCurrentEntry ==
    \A t \in timers :
        t.key \in DOMAIN safeMarkets
           => t.currentPrice = safeMarkets[t.key].currentPrice

\* C40: a run of runAllCircuitBreakerChecks in which the store query of an
\* evaluator threw does not report that all breakers passed: it returns
\* true, and the caller submits no order.
C40_FailedEvaluationIsNotAPass ==
    (call.fn = "runAllCircuitBreakerChecks" /\ call.failing # {})
       => call.out

====
